---- MODULE Spec2Model ----
(***************************************************************************)
(* blobman: a blob manager beside git, driving the restic backup tool.     *)
(* Model of src/blobman/__init__.py: the persisted config and lock files,  *)
(* the worktree, the git index and HEAD, the restic repository, and one    *)
(* action per CLI command.  One CLI invocation is one atomic step (the     *)
(* program is single-process and synchronous).  In Spec every command is   *)
(* run from the repository root; LsSpec resolves patterns from every       *)
(* working directory of the model.                                         *)
(*                                                                         *)
(* Paths and glob patterns are strings, modelled as sequences of           *)
(* one-character strings so that splitting on "/", wildcard matching and   *)
(* lexicographic sorting are computed rather than assumed.                 *)
(*                                                                         *)
(* The collaborators: git answers both of its queries with a list of      *)
(* paths (HEAD exists); a restic call either succeeds or exits non-zero,   *)
(* which invoke.run turns into an exception that ends the command where    *)
(* it is.  restic stores the listed files under their paths relative to    *)
(* the working directory, .blobman/lock.json among them, and `restic       *)
(* restore --target <git root>` writes them back over the worktree.        *)
(* .blobman/list.txt and .blobman/password.txt, which no command reads     *)
(* back into a decision, are left out.                                     *)
(***************************************************************************)
EXTENDS Integers, Sequences, FiniteSets, TLC

(***************************************************************************)
(* Bounds of the model.                                                    *)
(***************************************************************************)
\* random.getrandbits(32) is drawn from 1..MaxTag for snapshot tags
MaxTag == 2
\* random.getrandbits(32) is drawn from 1..MaxId for pattern ids
MaxId == 2
\* the number of distinct contents a worktree file can have
MaxContent == 2
\* the number of distinct hash strings in the inputs of _diff_locks
MaxHash == 3
\* the number of distinct snapshot tags in the inputs of _diff_locks
MaxDiffTag == 2

\* Python's None (json null): an absent snapshot tag, an absent target
None == <<"None">>

(***************************************************************************)
(* Strings.                                                                *)
(***************************************************************************)
\* the code points of the characters the model's strings are made of
Ord(ch) ==
    CASE ch = "*" -> 42
      [] ch = "." -> 46
      [] ch = "/" -> 47
      [] ch = "a" -> 97
      [] ch = "b" -> 98
      [] ch = "c" -> 99
      [] ch = "d" -> 100
      [] ch = "h" -> 104
      [] ch = "i" -> 105
      [] ch = "n" -> 110
      [] ch = "s" -> 115
      [] ch = "x" -> 120
      [] ch = "y" -> 121

\* Python's str.__lt__: comparison by code point, a proper prefix is smaller
RECURSIVE StrLess(_, _)
StrLess(s, t) ==
    IF t = <<>> THEN FALSE
    ELSE IF s = <<>> THEN TRUE
    ELSE IF Head(s) = Head(t) THEN StrLess(Tail(s), Tail(t))
    ELSE Ord(Head(s)) < Ord(Head(t))

\* sorted(S) for a set of strings
RECURSIVE Sorted(_)
Sorted(S) ==
    IF S = {} THEN <<>>
    ELSE LET m == CHOOSE x \in S : \A y \in S \ {x} : StrLess(x, y)
         IN  <<m>> \o Sorted(S \ {m})

\* the elements of a list, as a set
Range(seq) == {seq[i] : i \in 1..Len(seq)}

\* str.split('/'): the segments between the slashes
RECURSIVE SplitSlash(_)
SplitSlash(s) ==
    IF \A i \in 1..Len(s) : s[i] # "/" THEN <<s>>
    ELSE LET k == CHOOSE i \in 1..Len(s) :
                      s[i] = "/" /\ \A j \in 1..(i - 1) : s[j] # "/"
         IN  <<SubSeq(s, 1, k - 1)>> \o SplitSlash(SubSeq(s, k + 1, Len(s)))

\* os.path.join(d, n) for a relative n
PathJoin(d, n) ==
    IF d = <<>> THEN n
    ELSE IF d[Len(d)] = "/" THEN d \o n
    ELSE d \o <<"/">> \o n

(***************************************************************************)
(* State.                                                                  *)
(***************************************************************************)
VARIABLES
    fs,           \* worktree: content of each regular file that can vary (0 = no such file)
    git_staged,   \* paths `git diff --name-only --cached` lists
    git_tracked,  \* paths `git ls-tree -r HEAD --name-only` lists
    config,       \* .blobman/config.json: include_patterns, id -> glob
    lock,         \* .blobman/lock.json: snapshot_tag and tracked_files
    remote,       \* the restic repository: the list of its snapshots
    out,          \* what the last command did: its name, how it ended, what it printed
    call,         \* the last call of _diff_locks: src, dst and the LockDiff returned
    cwd,          \* os.getcwd(), relative to the repository root
    listed        \* the list of _ls the last command printed (status), or _ls run alone yielded

vars == <<fs, git_staged, git_tracked, config, lock, remote, out, call, cwd, listed>>

(***************************************************************************)
(* The worktree.  The regular file a comes, changes and goes; the          *)
(* directory d, its files d/b and d/.h and the symbolic link s -> a are    *)
(* always there.  Nothing in the model matches the hidden directories      *)
(* .git and .blobman.                                                      *)
(***************************************************************************)
FileA == <<"a">>
FileDB == <<"d", "/", "b">>
DirD == <<"d">>
HiddenDH == <<"d", "/", ".", "h">>
LinkS == <<"s">>

\* LOCK_PATH, relative to the repository root
LockPath == <<".blobman/lock.json">>

\* the regular files whose presence and content vary
VarFiles == {FileA}
\* the regular files that stay as they are
FixedFiles == {FileDB, HiddenDH}
\* the files the user may hand to git
GitFiles == {FileA}
\* what the symbolic links point to
LinkTarget(p) == FileA

\* str(Path(p)): a trailing slash is dropped
PathStr(p) ==
    IF Len(p) > 1 /\ p[Len(p)] = "/" THEN SubSeq(p, 1, Len(p) - 1) ELSE p

\* the worktrees of the model: the content of each file of VarFiles
Trees == [VarFiles -> 0..MaxContent]

\* the repository root as a working directory
Root == <<>>
\* the working directories inside the repository a command can be run from
Cwds == {Root, DirD}

\* the worktree as a process sees it: the files, and the working directory
\* its relative paths start from
View(dir, files) == [cwd |-> dir, files |-> files]
Views == {View(dir, files) : dir \in Cwds, files \in Trees}

\* the entry a relative path p of the process names, relative to the root
At(w, p) == IF w.cwd = Root THEN PathStr(p) ELSE PathJoin(w.cwd, PathStr(p))

\* os.path.lexists(p): the entry exists, a symbolic link is not followed
Lexists(w, p) ==
    /\ p # <<>>
    /\ \/ At(w, p) \in VarFiles /\ w.files[At(w, p)] # 0
       \/ At(w, p) \in FixedFiles \cup {DirD, LinkS}

\* Path(p).is_dir(), os.path.isdir(p)
IsDir(w, p) == p # <<>> /\ At(w, p) = DirD

\* Path(p).is_file(): a regular file, or a symbolic link to one
IsFile(w, p) ==
    /\ p # <<>>
    /\ \/ At(w, p) \in VarFiles /\ w.files[At(w, p)] # 0
       \/ At(w, p) \in FixedFiles
       \/ At(w, p) = LinkS /\ w.files[LinkTarget(LinkS)] # 0

\* every entry of the worktree that exists, by its path from the root
Entries(files) ==
    {p \in VarFiles : files[p] # 0} \cup FixedFiles \cup {DirD, LinkS}

\* the content `shasum f` reads: a symbolic link is followed
Content(w, f) ==
    IF At(w, f) = LinkS THEN w.files[LinkTarget(LinkS)]
    ELSE IF At(w, f) \in FixedFiles THEN 1
    ELSE w.files[At(w, f)]

(***************************************************************************)
(* glob.glob(pattern, recursive=True, include_hidden=False), in the view t *)
(***************************************************************************)
\* glob.has_magic
HasMagic(s) == \E i \in 1..Len(s) : s[i] \in {"*", "?", "["}

\* glob._ishidden
IsHidden(name) == name # <<>> /\ name[1] = "."

\* glob._isrecursive
IsRecursive(seg) == seg = <<"*", "*">>

\* fnmatch.fnmatch(name, pat) for patterns of literals, * and ?
RECURSIVE FnMatch(_, _)
FnMatch(name, pat) ==
    IF pat = <<>> THEN name = <<>>
    ELSE IF Head(pat) = "*"
         THEN FnMatch(name, Tail(pat)) \/ (name # <<>> /\ FnMatch(Tail(name), pat))
    ELSE IF Head(pat) = "?"
         THEN name # <<>> /\ FnMatch(Tail(name), Tail(pat))
    ELSE name # <<>> /\ Head(name) = Head(pat) /\ FnMatch(Tail(name), Tail(pat))

\* os.path.split(p): <<head, tail>> around the last slash
OsPathSplit(p) ==
    IF \A i \in 1..Len(p) : p[i] # "/" THEN <<(<<>>), p>>
    ELSE LET k == CHOOSE i \in 1..Len(p) :
                      p[i] = "/" /\ \A j \in (i + 1)..Len(p) : p[j] # "/"
         IN  <<PathStr(SubSeq(p, 1, k)), SubSeq(p, k + 1, Len(p))>>

\* glob._listdir(dirname, dironly): the names in a directory ('' is the
\* working directory); nothing when dirname is not a directory
ListDir(t, dirname, dironly) ==
    IF dirname # <<>> /\ ~IsDir(t, dirname) THEN {}
    ELSE LET dir == IF dirname = <<>> THEN t.cwd ELSE At(t, dirname)
             base == IF dir = Root THEN <<>> ELSE SplitSlash(dir)
         IN  {SplitSlash(e)[Len(base) + 1] :
                 e \in {x \in Entries(t.files) :
                          /\ Len(SplitSlash(x)) = Len(base) + 1
                          /\ SubSeq(SplitSlash(x), 1, Len(base)) = base
                          /\ (dironly => x = DirD)}}

\* glob._rlistdir
RECURSIVE Rlistdir(_, _, _)
Rlistdir(t, dirname, dironly) ==
    UNION {{x} \cup {PathJoin(x, y) : y \in Rlistdir(t, PathJoin(dirname, x), dironly)} :
             x \in {n \in ListDir(t, dirname, dironly) : ~IsHidden(n)}}

\* glob._glob0
Glob0(t, dirname, basename) ==
    IF basename # <<>>
    THEN IF Lexists(t, PathJoin(dirname, basename)) THEN {basename} ELSE {}
    ELSE IF IsDir(t, dirname) THEN {basename} ELSE {}

\* glob._glob1
Glob1(t, dirname, pattern, dironly) ==
    {n \in ListDir(t, dirname, dironly) :
        (IsHidden(n) => IsHidden(pattern)) /\ FnMatch(n, pattern)}

\* glob._glob2
Glob2(t, dirname, pattern, dironly) ==
    {<<>>} \cup Rlistdir(t, dirname, dironly)

\* glob._iglob
RECURSIVE Iglob(_, _, _)
Iglob(t, pathname, dironly) ==
    LET dirname == OsPathSplit(pathname)[1]
        basename == OsPathSplit(pathname)[2]
        GlobInDir(d) ==
            IF HasMagic(basename)
            THEN IF IsRecursive(basename) THEN Glob2(t, d, basename, dironly)
                 ELSE Glob1(t, d, basename, dironly)
            ELSE Glob0(t, d, basename)
    IN  IF ~HasMagic(pathname)
        THEN IF basename # <<>>
             THEN IF Lexists(t, pathname) THEN {pathname} ELSE {}
             ELSE IF IsDir(t, dirname) THEN {pathname} ELSE {}
        ELSE IF dirname = <<>>
        THEN IF IsRecursive(basename) THEN Glob2(t, <<>>, basename, dironly)
             ELSE Glob1(t, <<>>, basename, dironly)
        ELSE LET dirs == IF dirname # pathname /\ HasMagic(dirname)
                         THEN Iglob(t, dirname, TRUE)
                         ELSE {dirname}
             IN  UNION {{PathJoin(d, n) : n \in GlobInDir(d)} : d \in dirs}

\* glob.glob: the empty string a leading ** yields is skipped
Glob(t, pathname) ==
    IF pathname = <<>> \/ (Len(pathname) >= 2 /\ IsRecursive(SubSeq(pathname, 1, 2)))
    THEN Iglob(t, pathname, FALSE) \ {<<>>}
    ELSE Iglob(t, pathname, FALSE)

(***************************************************************************)
(* Pattern resolution and the lock states.                                 *)
(***************************************************************************)
\* the globs the user registers
Globs == {<<"*">>, <<"d">>}

\* _ls before sorting: the set `paths` after the two loops, for the globs
\* `globs` (patterns.values()) in the view t
LsSet(t, globs) ==
    LET matched == UNION {Glob(t, g) : g \in globs}
        expanded == matched \cup
            UNION {Glob(t, PathJoin(PathStr(p), <<"*", "*">>)) :
                     p \in {q \in matched : IsDir(t, q)}}
    IN  {p \in expanded : IsFile(t, p)}

\* LsSet, computed once for every view and set of globs of the model
LsTable == {<<t, globs, LsSet(t, globs)>> : t \in Views, globs \in SUBSET Globs}

\* set(_ls(patterns)) in the worktree as it is now
Lookup(t, globs) == (CHOOSE r \in LsTable : r[1] = t /\ r[2] = globs)[3]
LsPaths(patterns) == Lookup(View(cwd, fs), {patterns[id] : id \in DOMAIN patterns})

\* _ls(patterns): the list the generator yields
Ls(patterns) == Sorted(LsPaths(patterns))

\* the stripped output of `shasum f | awk "{ print $1 }"`: the shell expands
\* $1 inside the double quotes to nothing, awk prints the whole line
Shasum(f) == <<Content(View(cwd, fs), f), f>>

\* LockInfo: tracked_files -> {file: hash}, the dict comprehensions of the code
FileMap(tracked_files) ==
    [f \in {tracked_files[i].file : i \in 1..Len(tracked_files)} |->
        LET last == CHOOSE i \in 1..Len(tracked_files) :
                        /\ tracked_files[i].file = f
                        /\ \A j \in (i + 1)..Len(tracked_files) : tracked_files[j].file # f
        IN  tracked_files[last].hash]

\* the tracked_files of the worktree lock: every file of _ls with its hash
Hashed(files) == [i \in 1..Len(files) |-> [file |-> files[i], hash |-> Shasum(files[i])]]

\* mutant of Tagged: the worktree lock always gets the tag of the persisted lock
TaggedAlways(persisted, tracked) ==
    [snapshot_tag |-> persisted.snapshot_tag, tracked_files |-> tracked]

\* mutant of Tagged: the file names are compared, the hashes are not
TaggedByPaths(persisted, tracked) ==
    [snapshot_tag |-> IF DOMAIN FileMap(persisted.tracked_files) = DOMAIN FileMap(tracked)
                      THEN persisted.snapshot_tag ELSE None,
     tracked_files |-> tracked]

\* the worktree lock gets the tag of the persisted lock when the two maps are equal
Tagged(persisted, tracked) ==
    [snapshot_tag |-> IF FileMap(persisted.tracked_files) = FileMap(tracked)
                      THEN persisted.snapshot_tag ELSE None,
     tracked_files |-> tracked]

\* the worktree_lock _load_config computes
WorktreeLock == Tagged(lock, Hashed(Ls(config)))

(***************************************************************************)
(* Random tokens, tags, the records of the program.                        *)
(***************************************************************************)
HexDigits == <<"0", "1", "2", "3", "4", "5", "6", "7", "8", "9", "a", "b", "c", "d", "e", "f">>

\* hex(n)[2:]
RECURSIVE Hex(_)
Hex(n) ==
    IF n < 16 THEN <<HexDigits[n + 1]>>
    ELSE Hex(n \div 16) \o <<HexDigits[(n % 16) + 1]>>

\* the values hex(random.getrandbits(32))[2:] takes, for tags and for pattern ids
TagTokens == {Hex(n) : n \in 0..(MaxTag - 1)}
IdTokens == {Hex(n) : n \in 0..(MaxId - 1)}

\* mutant of FreshTags: the token is not compared with the remote's tags
FreshTagsUnchecked(tags) == TagTokens

\* while ('blobmanid:' + (id := hex(random.getrandbits(32))[2:])) in tags: pass
\* ends with a token whose tag is not in tags
FreshTags(tags) == {id \in TagTokens : (<<"blobmanid:">> \o id) \notin tags}

\* mutant of FreshIds: the token is not compared with the ids in use
FreshIdsUnchecked(ids) == IdTokens

\* while (id := hex(random.getrandbits(32))[2:]) in c.include_patterns: pass
FreshIds(ids) == {id \in IdTokens : id \notin ids}

\* d.values() of a dict
Values(d) == {d[k] : k \in DOMAIN d}

\* d[k] = v on a dict
SetItem(d, k, v) == [x \in DOMAIN d \cup {k} |-> IF x = k THEN v ELSE d[x]]

\* 'blobmanid:' + id, the tag a restic snapshot carries
BlobmanTag(id) == <<"blobmanid:">> \o id

\* LockInfo()
EmptyLock == [snapshot_tag |-> None, tracked_files |-> <<>>]

\* LockDiff
LockDiff(added, removed, modified, unchanged) ==
    [added_files |-> added, removed_files |-> removed,
     modified_files |-> modified, unchanged_files |-> unchanged]

\* no call of _diff_locks was made by the last command
NoCall == [made |-> FALSE]

\* the outcome of a command, as the user sees it
Outcome(cmd, arg, status, common, id) ==
    [cmd |-> cmd, arg |-> arg, status |-> status, common |-> common, id |-> id]

(***************************************************************************)
(* The helpers of the commands.                                            *)
(***************************************************************************)
\* _load_config: the BlobmanConfig read from config.json, lock.json and the worktree
LoadConfig ==
    [include_patterns |-> config, lock |-> lock, worktree_lock |-> WorktreeLock]

\* _ensure_no_collisions: the set `common`; the command exits when it is not empty.
\* str.split('\n') leaves the empty string in both git sets.
\* mutant of Common: the staged paths are left out
CommonTrackedOnly(blob_matching, staged, tracked) ==
    blob_matching \cap (tracked \cup {<<>>})

Common(blob_matching, staged, tracked) ==
    (blob_matching \cap (staged \cup {<<>>})) \cup (blob_matching \cap (tracked \cup {<<>>}))

\* mutant of EnsureNoCollisions: nothing is ever reported
EnsureNoCollisionsOff(c) == {}

EnsureNoCollisions(c) == Common(LsPaths(c.include_patterns), git_staged, git_tracked)

\* the file names of a lock
FilesOf(l) == {l.tracked_files[i].file : i \in 1..Len(l.tracked_files)}

\* mutant of DiffLocks: the modified files are not taken out of the unchanged ones
DiffLocksOverlap(src, dst) ==
    IF src.snapshot_tag = dst.snapshot_tag
       /\ None \notin {src.snapshot_tag, dst.snapshot_tag}
    THEN LockDiff({}, {}, {}, FilesOf(src))
    ELSE LET common_files == FilesOf(src) \cap FilesOf(dst)
             src_map == FileMap(src.tracked_files)
             dst_map == FileMap(dst.tracked_files)
         IN  LockDiff(FilesOf(dst) \ FilesOf(src), FilesOf(src) \ FilesOf(dst),
                      {p \in common_files : src_map[p] # dst_map[p]}, common_files)

\* mutant of DiffLocks: no fast path, the hashes are always compared
DiffLocksNoFastPath(src, dst) ==
    LET common_files == FilesOf(src) \cap FilesOf(dst)
        src_map == FileMap(src.tracked_files)
        dst_map == FileMap(dst.tracked_files)
        changed_files == {p \in common_files : src_map[p] # dst_map[p]}
    IN  LockDiff(FilesOf(dst) \ FilesOf(src), FilesOf(src) \ FilesOf(dst),
                 changed_files, common_files \ changed_files)

\* mutant of DiffLocks: added and removed are exchanged
DiffLocksSwapped(src, dst) ==
    IF src.snapshot_tag = dst.snapshot_tag
       /\ None \notin {src.snapshot_tag, dst.snapshot_tag}
    THEN LockDiff({}, {}, {}, FilesOf(src))
    ELSE LET common_files == FilesOf(src) \cap FilesOf(dst)
             src_map == FileMap(src.tracked_files)
             dst_map == FileMap(dst.tracked_files)
             changed_files == {p \in common_files : src_map[p] # dst_map[p]}
         IN  LockDiff(FilesOf(src) \ FilesOf(dst), FilesOf(dst) \ FilesOf(src),
                      changed_files, common_files \ changed_files)

\* mutant of DiffLocks: the comparison of the hashes is inverted
DiffLocksInverted(src, dst) ==
    IF src.snapshot_tag = dst.snapshot_tag
       /\ None \notin {src.snapshot_tag, dst.snapshot_tag}
    THEN LockDiff({}, {}, {}, FilesOf(src))
    ELSE LET common_files == FilesOf(src) \cap FilesOf(dst)
             src_map == FileMap(src.tracked_files)
             dst_map == FileMap(dst.tracked_files)
             changed_files == {p \in common_files : src_map[p] = dst_map[p]}
         IN  LockDiff(FilesOf(dst) \ FilesOf(src), FilesOf(src) \ FilesOf(dst),
                      changed_files, common_files \ changed_files)

\* mutant of DiffLocks: the fast path is taken whenever src carries a tag
DiffLocksSrcTagOnly(src, dst) ==
    IF src.snapshot_tag # None
    THEN LockDiff({}, {}, {}, FilesOf(src))
    ELSE LET common_files == FilesOf(src) \cap FilesOf(dst)
             src_map == FileMap(src.tracked_files)
             dst_map == FileMap(dst.tracked_files)
             changed_files == {p \in common_files : src_map[p] # dst_map[p]}
         IN  LockDiff(FilesOf(dst) \ FilesOf(src), FilesOf(src) \ FilesOf(dst),
                      changed_files, common_files \ changed_files)

\* _diff_locks
DiffLocks(src, dst) ==
    IF src.snapshot_tag = dst.snapshot_tag
       /\ None \notin {src.snapshot_tag, dst.snapshot_tag}
    THEN LockDiff({}, {}, {}, FilesOf(src))
    ELSE LET src_files == FilesOf(src)
             dst_files == FilesOf(dst)
             common_files == src_files \cap dst_files
             src_map == FileMap(src.tracked_files)
             dst_map == FileMap(dst.tracked_files)
             changed_files == {p \in common_files : src_map[p] # dst_map[p]}
         IN  LockDiff(dst_files \ src_files, src_files \ dst_files,
                      changed_files, common_files \ changed_files)

\* mutant of DiffCall: the arguments are exchanged
DiffCallSwapped(src, dst) ==
    [made |-> TRUE, src |-> dst, dst |-> src, res |-> DiffLocks(dst, src)]

\* the record of a call of _diff_locks
DiffCall(src, dst) == [made |-> TRUE, src |-> src, dst |-> dst, res |-> DiffLocks(src, dst)]

\* the blobmanid: tags `restic snapshots --json` lists
RemoteTags == UNION {remote[i].tags : i \in 1..Len(remote)}

\* what `restic backup --tag blobmanid:<id> --files-from-verbatim list.txt`
\* stores: the listed files as they are now, and .blobman/lock.json
NewSnapshot(id, files, lockfile) ==
    [tags |-> {BlobmanTag(id)},
     files |-> [f \in {PathStr(x) : x \in Range(files)} \cap VarFiles |-> fs[f]],
     lockfile |-> lockfile]

(***************************************************************************)
(* The state `blobman init` leaves in a fresh repository.                  *)
(***************************************************************************)
Init ==
    /\ fs = [f \in VarFiles |-> 0]
    /\ git_staged = {}
    /\ git_tracked = {}
    /\ config = <<>>
    /\ lock = EmptyLock
    /\ remote = <<>>
    /\ out = Outcome("init", None, "ok", {}, None)
    /\ call = NoCall
    /\ cwd = Root
    /\ listed = <<>>

(***************************************************************************)
(* The commands.                                                           *)
(***************************************************************************)
\* mutant of StoreConfig: the worktree lock is written to lock.json
StoreConfigWorktreeLock(c) ==
    /\ lock' = c.worktree_lock
    /\ config' = c.include_patterns

\* _store_config: lock.json and config.json are rewritten from c
StoreConfig(c) ==
    /\ lock' = c.lock
    /\ config' = c.include_patterns

\* the file names of a list of tracked files
Names(tracked_files) == [i \in 1..Len(tracked_files) |-> tracked_files[i].file]

\* the name of a command run with or without --dry
Named(cmd, dry) == IF dry THEN cmd \o "_dry" ELSE cmd

\* the command stays in its working directory and prints no list of blobs
Quiet == cwd' = cwd /\ listed' = <<>>

\* a command ends without having written anything
Ends(cmd, arg, status, common, id) ==
    /\ out' = Outcome(cmd, arg, status, common, id)
    /\ UNCHANGED <<fs, git_staged, git_tracked, config, lock, remote>>

\* mutant of Snapshot: --dry is not looked at, the run commits
SnapshotIgnoresDry(dry, restic) ==
    \E c \in {LoadConfig} : \E common \in {EnsureNoCollisions(c)} : Quiet /\
        IF common # {}
        THEN /\ call' = NoCall
             /\ Ends(Named("snapshot", dry), None, "collision", common, None)
        ELSE /\ call' = DiffCall(c.lock, c.worktree_lock)
             /\ IF restic = "list_fails"
                THEN Ends(Named("snapshot", dry), None, "list_fails", {}, None)
                ELSE \E id \in FreshTags(RemoteTags) :
                     \E newlock \in {[snapshot_tag |-> id,
                                      tracked_files |-> c.worktree_lock.tracked_files]} :
                        /\ StoreConfig([c EXCEPT !.lock = newlock])
                        /\ remote' = IF restic = "ok"
                                     THEN Append(remote, NewSnapshot(id,
                                              Names(newlock.tracked_files), newlock))
                                     ELSE remote
                        /\ out' = Outcome(Named("snapshot", dry), None, restic, {}, id)
                        /\ UNCHANGED <<fs, git_staged, git_tracked>>

\* blobman snapshot [--dry]; restic is how the restic calls of a non-dry run
\* end: "ok", "list_fails" (restic snapshots) or "backup_fails" (restic backup)
Snapshot(dry, restic) ==
    \E c \in {LoadConfig} : \E common \in {EnsureNoCollisions(c)} : Quiet /\
        IF common # {}
        THEN /\ call' = NoCall
             /\ Ends(Named("snapshot", dry), None, "collision", common, None)
        ELSE /\ call' = DiffCall(c.lock, c.worktree_lock)
             /\ IF dry THEN Ends("snapshot_dry", None, "ok", {}, None)
                ELSE IF restic = "list_fails"
                THEN Ends("snapshot", None, "list_fails", {}, None)
                ELSE \E id \in FreshTags(RemoteTags) :
                     \E newlock \in {[snapshot_tag |-> id,
                                      tracked_files |-> c.worktree_lock.tracked_files]} :
                        /\ StoreConfig([c EXCEPT !.lock = newlock])
                        /\ remote' = IF restic = "ok"
                                     THEN Append(remote, NewSnapshot(id,
                                              Names(newlock.tracked_files), newlock))
                                     ELSE remote
                        /\ out' = Outcome("snapshot", None, restic, {}, id)
                        /\ UNCHANGED <<fs, git_staged, git_tracked>>

\* mutant of SnapshotIds: the tag is not looked at, every snapshot matches
SnapshotIdsAny(target) == 1..Len(remote)

\* the first snapshot of the listing that carries the tag of target
SnapshotIds(target) == {i \in 1..Len(remote) : BlobmanTag(target) \in remote[i].tags}
First(ids) == CHOOSE i \in ids : \A j \in ids : i <= j

\* blobman checkout [target] [--dry]; restic is how the restic calls end: "ok",
\* "list_fails" (restic snapshots), "dump_fails" (restic dump) or
\* "restore_fails" (restic restore, which then has written some of the
\* snapshot's entries and not the others).  "unknown_tag" is the StopIteration
\* next() raises on line 104 when no listed snapshot carries the tag.
Checkout(target0, dry, restic) ==
    \E c \in {LoadConfig} :
    \E target \in {IF target0 = None THEN c.lock.snapshot_tag ELSE target0} :
    \E matching \in {SnapshotIds(target)} : Quiet /\
        IF restic = "list_fails"
        THEN call' = NoCall /\ Ends(Named("checkout", dry), target0, "list_fails", {}, None)
        ELSE IF matching = {}
        THEN call' = NoCall /\ Ends(Named("checkout", dry), target0, "unknown_tag", {}, target)
        ELSE IF target # c.lock.snapshot_tag /\ restic = "dump_fails"
        THEN call' = NoCall /\ Ends(Named("checkout", dry), target0, "dump_fails", {}, target)
        ELSE \E snap \in {remote[First(matching)]} :
             /\ call' = DiffCall(c.worktree_lock,
                                 IF target = c.lock.snapshot_tag THEN c.lock
                                 ELSE snap.lockfile)
             /\ IF dry THEN Ends("checkout_dry", target0, "ok", {}, target)
                ELSE \E restored \in IF restic = "restore_fails"
                                     THEN (SUBSET (DOMAIN snap.files \cup {LockPath}))
                                              \ {DOMAIN snap.files \cup {LockPath}}
                                     ELSE {DOMAIN snap.files \cup {LockPath}} :
                        /\ fs' = [f \in VarFiles |->
                                    IF f \in restored THEN snap.files[f] ELSE fs[f]]
                        /\ lock' = IF LockPath \in restored THEN snap.lockfile ELSE lock
                        /\ out' = Outcome("checkout", target0,
                                          IF restic = "restore_fails"
                                          THEN "restore_fails" ELSE "ok", {}, target)
                        /\ UNCHANGED <<git_staged, git_tracked, config, remote>>

\* blobman status: prints the patterns, the tracked blobs and the snapshots,
\* changes nothing
Status ==
    \E c \in {LoadConfig} :
        /\ call' = NoCall
        /\ cwd' = cwd
        /\ listed' = Ls(c.include_patterns)
        /\ Ends("status", None, "ok", {}, c.worktree_lock.snapshot_tag)

\* mutant of Add: the collision check runs before the new pattern is inserted
AddCheckedBeforeInsert(pattern) ==
    \E c \in {LoadConfig} :
        /\ call' = NoCall
        /\ Quiet
        /\ IF pattern \in Values(c.include_patterns)
           THEN Ends("add", pattern, "noop", {}, None)
           ELSE \E id \in FreshIds(DOMAIN c.include_patterns) :
                \E c2 \in {[c EXCEPT !.include_patterns = SetItem(@, id, pattern)]} :
                \E common \in {EnsureNoCollisions(c)} :
                   IF common # {}
                   THEN Ends("add", pattern, "collision", common, id)
                   ELSE /\ out' = Outcome("add", pattern, "ok", {}, id)
                        /\ StoreConfig(c2)
                        /\ UNCHANGED <<fs, git_staged, git_tracked, remote>>

\* blobman add <pattern>
Add(pattern) ==
    \E c \in {LoadConfig} :
        /\ call' = NoCall
        /\ Quiet
        /\ IF pattern \in Values(c.include_patterns)
           THEN Ends("add", pattern, "noop", {}, None)
           ELSE \E id \in FreshIds(DOMAIN c.include_patterns) :
                \E c2 \in {[c EXCEPT !.include_patterns = SetItem(@, id, pattern)]} :
                \E common \in {EnsureNoCollisions(c2)} :
                   IF common # {}
                   THEN Ends("add", pattern, "collision", common, id)
                   ELSE /\ out' = Outcome("add", pattern, "ok", {}, id)
                        /\ StoreConfig(c2)
                        /\ UNCHANGED <<fs, git_staged, git_tracked, remote>>

\* del d[k] on a dict
DelItem(d, k) == [x \in DOMAIN d \ {k} |-> d[x]]

\* blobman remove <pattern_id>
Remove(pattern_id) ==
    \E c \in {LoadConfig} :
        /\ call' = NoCall
        /\ Quiet
        /\ IF pattern_id \notin DOMAIN c.include_patterns
           THEN Ends("remove", pattern_id, "key_error", {}, None)
           ELSE /\ out' = Outcome("remove", pattern_id, "ok", {}, None)
                /\ StoreConfig([c EXCEPT !.include_patterns = DelItem(@, pattern_id)])
                /\ UNCHANGED <<fs, git_staged, git_tracked, remote>>

(***************************************************************************)
(* The user, between two commands.                                         *)
(***************************************************************************)
Between == /\ out' = Outcome("user", None, "ok", {}, None)
           /\ call' = NoCall
           /\ Quiet

\* a blob is written, overwritten or deleted
WriteFile(f, content) ==
    /\ fs[f] # content
    /\ fs' = [fs EXCEPT ![f] = content]
    /\ Between
    /\ UNCHANGED <<git_staged, git_tracked, config, lock, remote>>

\* git add <f>
GitAdd(f) ==
    /\ fs[f] # 0
    /\ f \notin git_staged \cup git_tracked
    /\ git_staged' = git_staged \cup {f}
    /\ Between
    /\ UNCHANGED <<fs, git_tracked, config, lock, remote>>

\* git commit
GitCommit ==
    /\ git_staged # {}
    /\ git_tracked' = git_tracked \cup git_staged
    /\ git_staged' = {}
    /\ Between
    /\ UNCHANGED <<fs, config, lock, remote>>

\* how a command is run and how its restic calls end
SnapshotRuns ==
    {<<TRUE, "ok">>, <<FALSE, "ok">>, <<FALSE, "list_fails">>, <<FALSE, "backup_fails">>}
CheckoutRuns ==
    {<<TRUE, "ok">>, <<FALSE, "ok">>, <<FALSE, "list_fails">>,
     <<FALSE, "dump_fails">>, <<FALSE, "restore_fails">>}

Next ==
    \/ \E run \in SnapshotRuns : Snapshot(run[1], run[2])
    \/ \E target \in TagTokens \cup {None}, run \in CheckoutRuns :
          Checkout(target, run[1], run[2])
    \/ Status
    \/ \E pattern \in Globs : Add(pattern)
    \/ \E pattern_id \in IdTokens : Remove(pattern_id)
    \/ \E f \in VarFiles, content \in 0..MaxContent : WriteFile(f, content)
    \/ \E f \in GitFiles : GitAdd(f)
    \/ GitCommit

Spec == Init /\ [][Next]_vars

(***************************************************************************)
(* _diff_locks on its own: the arguments are drawn from every pair of lock *)
(* states over two paths, MaxHash hashes and MaxDiffTag tags, then the     *)
(* function is applied.                                                    *)
(***************************************************************************)
XBin == <<"x", ".", "b", "i", "n">>
YBin == <<"y", ".", "b", "i", "n">>
DiffPaths == {XBin, YBin}
HashNames == <<"aaa", "bbb", "ccc", "ddd", "eee", "fff">>
DiffHashes == {HashNames[i] : i \in 1..MaxHash}
DiffTags == {Hex(n) : n \in 1..MaxDiffTag} \cup {None}

\* the tracked_files lists _load_config and lock.json can hold: sorted by
\* path, one entry for a path
DiffFileLists ==
    UNION {{[i \in 1..Len(Sorted(P)) |-> [file |-> Sorted(P)[i], hash |-> h[Sorted(P)[i]]]] :
              h \in [P -> DiffHashes]} : P \in SUBSET DiffPaths}

DiffLockStates ==
    {[snapshot_tag |-> t, tracked_files |-> fl] : t \in DiffTags, fl \in DiffFileLists}

DiffInit ==
    /\ fs = [f \in VarFiles |-> 0]
    /\ git_staged = {}
    /\ git_tracked = {}
    /\ config = <<>>
    /\ lock = EmptyLock
    /\ remote = <<>>
    /\ out = Outcome("args", None, "ok", {}, None)
    /\ call \in {[made |-> FALSE, src |-> a, dst |-> b] : a, b \in DiffLockStates}
    /\ cwd = Root
    /\ listed = <<>>

\* diff = _diff_locks(src, dst)
DiffStep ==
    /\ ~call.made
    /\ call' = DiffCall(call.src, call.dst)
    /\ out' = Outcome("_diff_locks", None, "ok", {}, None)
    /\ UNCHANGED <<fs, git_staged, git_tracked, config, lock, remote, cwd, listed>>

DiffSpec == DiffInit /\ [][DiffStep]_vars

(***************************************************************************)
(* _ls on its own: the worktree, the working directory and the patterns    *)
(* are drawn from every combination of the model, then the generator is    *)
(* run to its end.                                                         *)
(***************************************************************************)
\* the globs _ls is given: wildcards, the directory, the symbolic link, names
\* that exist only below the root or only below d
LsGlobs == {<<"*">>, <<"*", "*">>, <<"d">>, <<"d", "/", "*">>, <<"s">>, <<"b">>}

\* the include_patterns config.json can hold: id -> glob, no glob twice
LsPatterns ==
    UNION {{d \in [ids -> LsGlobs] : \A j, k \in ids : j # k => d[j] # d[k]} :
             ids \in SUBSET IdTokens}

LsInit ==
    /\ fs \in Trees
    /\ cwd \in Cwds
    /\ config \in LsPatterns
    /\ git_staged = {}
    /\ git_tracked = {}
    /\ lock = EmptyLock
    /\ remote = <<>>
    /\ out = Outcome("args", None, "ok", {}, None)
    /\ call = NoCall
    /\ listed = <<>>

\* list(_ls(patterns))
LsStep ==
    /\ out.cmd = "args"
    /\ listed' = Sorted(LsSet(View(cwd, fs), Values(config)))
    /\ out' = Outcome("_ls", None, "ok", {}, None)
    /\ UNCHANGED <<fs, git_staged, git_tracked, config, lock, remote, call, cwd>>

LsSpec == LsInit /\ [][LsStep]_vars

(***************************************************************************)
(* Properties.                                                             *)
(***************************************************************************)
\* the paths git has committed or staged
GitPaths == git_staged \cup git_tracked

\* the files the patterns of a config resolve to, in the worktree as it is now
Resolved(patterns) == LsSet(View(cwd, fs), Values(patterns))

\* C1: when the backup of a non-dry snapshot fails, lock.json is what it was
\* before the command.
C1_LockUntouchedWhenBackupFails ==
    [][(out'.cmd = "snapshot" /\ out'.status = "backup_fails") => lock' = lock]_vars

\* the two arguments of the last call carry the same present tag
SameTag == /\ call.src.snapshot_tag = call.dst.snapshot_tag
           /\ call.src.snapshot_tag # None

\* the four classes of a LockDiff are pairwise disjoint
Disjoint4(d) ==
    /\ d.added_files \cap d.removed_files = {}
    /\ d.added_files \cap d.modified_files = {}
    /\ d.added_files \cap d.unchanged_files = {}
    /\ d.removed_files \cap d.modified_files = {}
    /\ d.removed_files \cap d.unchanged_files = {}
    /\ d.modified_files \cap d.unchanged_files = {}

Union4(d) == d.added_files \cup d.removed_files \cup d.modified_files \cup d.unchanged_files

\* C2 as claimed: for every pair of lock states the four classes of
\* _diff_locks(src, dst) are pairwise disjoint and their union is
\* src.paths \cup dst.paths.
C2_PartitionOfBothPathSets ==
    call.made =>
        /\ Disjoint4(call.res)
        /\ Union4(call.res) = FilesOf(call.src) \cup FilesOf(call.dst)

\* C2 as amended: the four classes are pairwise disjoint; their union is
\* src.paths \cup dst.paths when the tags are absent or differ, and src.paths
\* alone when both states carry the same tag.
C2_PartitionUnlessSameTag ==
    call.made =>
        /\ Disjoint4(call.res)
        /\ Union4(call.res) = IF SameTag THEN FilesOf(call.src)
                              ELSE FilesOf(call.src) \cup FilesOf(call.dst)

C2_Witness ==
    /\ call.made
    /\ SameTag
    /\ FilesOf(call.dst) \ FilesOf(call.src) # {}
    /\ Union4(call.res) = FilesOf(call.src)

\* C3: a non-dry snapshot whose resolved files meet the committed or staged
\* paths ends with a collision error listing the common paths; no tag is
\* allocated, no backup is made, lock.json and config.json stay as they were.
C3_SnapshotAbortsOnCollision ==
    [][(out'.cmd = "snapshot" /\ Resolved(config) \cap GitPaths # {}) =>
          /\ out'.status = "collision"
          /\ out'.common = Resolved(config) \cap GitPaths
          /\ out'.id = None
          /\ remote' = remote
          /\ lock' = lock
          /\ config' = config]_vars

C3_Witness ==
    /\ out.cmd = "snapshot"
    /\ out.status = "collision"
    /\ FileA \in out.common
    /\ lock.snapshot_tag # None

\* no two snapshots of the remote carry the same blobman tag
TagsDistinct ==
    \A i, j \in 1..Len(remote) : i # j => remote[i].tags \cap remote[j].tags = {}

\* C4: the tag a non-dry snapshot allocates is not among the tags the remote
\* listed, and no two remote snapshots carry the same tag.
C4_FreshTag ==
    /\ TagsDistinct
    /\ (out.cmd = "snapshot" /\ out.status = "backup_fails") =>
          BlobmanTag(out.id) \notin RemoteTags
    /\ (out.cmd = "snapshot" /\ out.status = "ok") =>
          /\ remote[Len(remote)].tags = {BlobmanTag(out.id)}
          /\ \A i \in 1..(Len(remote) - 1) : BlobmanTag(out.id) \notin remote[i].tags

C4_Witness ==
    /\ out.cmd = "snapshot"
    /\ out.status = "ok"
    /\ Len(remote) = 2

\* the hash a lock state records for a path
HashOf(l, p) == (CHOOSE e \in Range(l.tracked_files) : e.file = p).hash

\* C5: with equal present tags _diff_locks reports every path of src unchanged
\* and nothing else, whatever the hashes are.
C5_TagShortCircuit ==
    (call.made /\ SameTag) =>
        call.res = [added_files |-> {}, removed_files |-> {}, modified_files |-> {},
                    unchanged_files |-> FilesOf(call.src)]

C5_Witness ==
    /\ call.made
    /\ SameTag
    /\ \E p \in FilesOf(call.src) \cap FilesOf(call.dst) :
          HashOf(call.src, p) # HashOf(call.dst, p)
    /\ call.res.unchanged_files = FilesOf(call.src)

\* the arguments and the result of the scenario of C6
C6_Src == [snapshot_tag |-> Hex(1),
           tracked_files |-> <<[file |-> XBin, hash |-> "aaa"]>>]
C6_Dst == [snapshot_tag |-> None,
           tracked_files |-> <<[file |-> XBin, hash |-> "bbb"],
                               [file |-> YBin, hash |-> "ccc"]>>]

\* C6: with tags absent or different, added = dst \ src, removed = src \ dst,
\* modified = the common paths whose hashes differ, unchanged = the common
\* paths whose hashes match; {t1, x.bin:aaa} against {no tag, x.bin:bbb,
\* y.bin:ccc} gives added {y.bin}, removed {}, modified {x.bin}, unchanged {}.
C6_GeneralPath ==
    /\ (call.made /\ ~SameTag) =>
          /\ call.res.added_files = {p \in FilesOf(call.dst) : p \notin FilesOf(call.src)}
          /\ call.res.removed_files = {p \in FilesOf(call.src) : p \notin FilesOf(call.dst)}
          /\ call.res.modified_files =
                {p \in FilesOf(call.src) \cap FilesOf(call.dst) :
                    HashOf(call.src, p) # HashOf(call.dst, p)}
          /\ call.res.unchanged_files =
                {p \in FilesOf(call.src) \cap FilesOf(call.dst) :
                    HashOf(call.src, p) = HashOf(call.dst, p)}
    /\ (call.made /\ call.src = C6_Src /\ call.dst = C6_Dst) =>
          call.res = [added_files |-> {YBin}, removed_files |-> {},
                      modified_files |-> {XBin}, unchanged_files |-> {}]

C6_Witness ==
    /\ call.made
    /\ call.src = C6_Src
    /\ call.dst = C6_Dst
    /\ call.res.modified_files = {XBin}

\* the commands that run the collision check on the persisted patterns
ChecksPersisted == out.cmd \in {"snapshot", "snapshot_dry"}

\* C7: the collision check fails exactly when the resolved files meet the
\* union of the committed and the staged paths, and then lists the common
\* paths; otherwise the command goes on.
C7_CollisionIffIntersect ==
    /\ ChecksPersisted =>
          /\ (out.status = "collision") = (Resolved(config) \cap GitPaths # {})
          /\ out.common = Resolved(config) \cap GitPaths
    /\ (out.cmd = "add" /\ out.status = "collision") =>
          /\ out.common = Resolved(SetItem(config, out.id, out.arg)) \cap GitPaths
          /\ out.common # {}
    /\ (out.cmd = "add" /\ out.status = "ok") =>
          Resolved(config) \cap GitPaths = {}

C7_Witness ==
    /\ ChecksPersisted
    /\ out.status = "collision"
    /\ out.common \subseteq git_staged
    /\ git_tracked = {}

\* C8: whenever lock.json carries a tag, a remote snapshot with that tag
\* exists and the lock record stored in it equals lock.json.
C8_LockMatchesRemoteSnapshot ==
    lock.snapshot_tag # None =>
        \E i \in 1..Len(remote) :
            /\ BlobmanTag(lock.snapshot_tag) \in remote[i].tags
            /\ remote[i].lockfile = lock

\* no two registered patterns have the same glob
GlobsUnique ==
    \A j, k \in DOMAIN config : j # k => config[j] # config[k]

\* C9: no two registered patterns share a glob or an id; add of a registered
\* glob changes nothing, add of a new glob takes an id that is not in use.
C9_PatternsUnique ==
    [][/\ GlobsUnique'
       /\ (out'.cmd = "add" /\ out'.arg \in Values(config)) =>
             (out'.status = "noop" /\ config' = config /\ lock' = lock)
       /\ (out'.cmd = "add" /\ out'.status = "ok") =>
             /\ out'.id \notin DOMAIN config
             /\ DOMAIN config' = DOMAIN config \cup {out'.id}
             /\ config'[out'.id] = out'.arg
             /\ \A k \in DOMAIN config : config'[k] = config[k]
       /\ (out'.cmd = "remove" /\ out'.status = "ok") =>
             /\ DOMAIN config' = DOMAIN config \ {out'.arg}
             /\ \A k \in DOMAIN config' : config'[k] = config[k]]_vars

C9_Witness ==
    /\ out.cmd = "add"
    /\ out.status = "ok"
    /\ Cardinality(DOMAIN config) = 2

\* C10: add checks the pattern set that includes the new glob before it
\* writes; on a collision it aborts and config.json and lock.json stay as
\* they were, the new pattern is not registered.
C10_AddChecksNewPattern ==
    [][(out'.cmd = "add" /\ out'.arg \notin Values(config)) =>
          IF Resolved(SetItem(config, out'.id, out'.arg)) \cap GitPaths # {}
          THEN /\ out'.status = "collision"
               /\ config' = config
               /\ lock' = lock
          ELSE /\ out'.status = "ok"
               /\ config' = SetItem(config, out'.id, out'.arg)]_vars

C10_Witness ==
    /\ out.cmd = "add"
    /\ out.status = "collision"
    /\ out.arg \notin Values(config)
    /\ Resolved(config) \cap GitPaths = {}
    /\ DOMAIN config # {}

\* C11 as claimed: add, remove, status, snapshot --dry, checkout --dry and a
\* non-dry checkout, of the default or of any other tag, leave the tag and
\* the tracked files of lock.json as they were before the command.
C11_LockChangesOnlyOnSnapshot ==
    [][out'.cmd \in {"add", "remove", "status", "snapshot_dry", "checkout_dry", "checkout"}
          => lock' = lock]_vars

\* C11 as amended: add, remove, status, snapshot --dry, checkout --dry and a
\* non-dry checkout of the tag lock.json carries leave lock.json as it was; a
\* non-dry checkout of another existing tag replaces lock.json by the lock
\* record stored in the target snapshot (a restore that fails has replaced it
\* or not).
C11_LockChangesOnSnapshotOrRestore ==
    [][/\ out'.cmd \in {"add", "remove", "status", "snapshot_dry", "checkout_dry"}
             => lock' = lock
       /\ (out'.cmd = "checkout" /\ out'.id = lock.snapshot_tag) => lock' = lock
       /\ (out'.cmd = "checkout" /\ out'.id # lock.snapshot_tag) =>
             IF out'.status \in {"ok", "restore_fails"}
             THEN /\ \E i \in 1..Len(remote) :
                        /\ BlobmanTag(out'.id) \in remote[i].tags
                        /\ lock' \in {remote[i].lockfile} \cup
                                     (IF out'.status = "ok" THEN {} ELSE {lock})
                  /\ out'.status = "ok" => lock'.snapshot_tag = out'.id
             ELSE lock' = lock]_vars

C11_Witness ==
    /\ out.cmd = "checkout"
    /\ out.status = "ok"
    /\ out.arg # None
    /\ lock.snapshot_tag = out.arg
    /\ Len(remote) = 2
    /\ remote[2].tags # {BlobmanTag(out.arg)}
    /\ remote[2].lockfile.tracked_files # lock.tracked_files

\* C12: snapshot --dry leaves config.json, lock.json, the remote and the
\* worktree as they were and allocates no tag; what it reports is the diff of
\* lock.json against the worktree, and a second run right after the first
\* reports the same.
C12_DrySnapshotChangesNothing ==
    [][/\ out'.cmd = "snapshot_dry" =>
             /\ config' = config
             /\ lock' = lock
             /\ remote' = remote
             /\ fs' = fs
             /\ out'.id = None
             /\ out'.status = "ok" =>
                   call' = [made |-> TRUE, src |-> lock, dst |-> WorktreeLock,
                            res |-> DiffLocks(lock, WorktreeLock)]
       /\ (out.cmd = "snapshot_dry" /\ out'.cmd = "snapshot_dry") =>
             (out' = out /\ call' = call)]_vars

C12_Witness ==
    /\ out.cmd = "snapshot_dry"
    /\ out.status = "ok"
    /\ lock.snapshot_tag # None
    /\ call.res.modified_files # {}
    /\ Len(remote) = 1

\* C13: checkout diffs the worktree lock (src) against the lock of the target
\* snapshot (dst): added = the paths of the target that the worktree lacks,
\* removed = the paths of the worktree that the target lacks; without a
\* target argument the target is the tag of lock.json.  snapshot diffs
\* lock.json (src) against the worktree lock (dst).
C13_CheckoutDiffsWorktreeAgainstTarget ==
    [][/\ (out'.cmd \in {"checkout", "checkout_dry"} /\ call'.made) =>
             /\ out'.id = (IF out'.arg = None THEN lock.snapshot_tag ELSE out'.arg)
             /\ call'.src = WorktreeLock
             /\ \E i \in 1..Len(remote) :
                   /\ BlobmanTag(out'.id) \in remote[i].tags
                   /\ call'.dst = remote[i].lockfile
             /\ call'.res.added_files = FilesOf(call'.dst) \ FilesOf(call'.src)
             /\ call'.res.removed_files = FilesOf(call'.src) \ FilesOf(call'.dst)
       /\ (out'.cmd \in {"snapshot", "snapshot_dry"} /\ call'.made) =>
             /\ call'.src = lock
             /\ call'.dst = WorktreeLock
             /\ call'.res.added_files = FilesOf(call'.dst) \ FilesOf(call'.src)
             /\ call'.res.removed_files = FilesOf(call'.src) \ FilesOf(call'.dst)]_vars

C13_Witness ==
    /\ out.cmd = "checkout_dry"
    /\ out.arg = None
    /\ call.made
    /\ call.src.snapshot_tag = None
    /\ call.dst = lock
    /\ FileA \in call.res.added_files
    /\ call.res.removed_files = {}

\* C14: for every lock state a, tagged or not, _diff_locks(a, a) reports
\* nothing added, removed or modified and every path of a unchanged.
C14_DiffWithItself ==
    (call.made /\ call.src = call.dst) =>
        call.res = [added_files |-> {}, removed_files |-> {}, modified_files |-> {},
                    unchanged_files |-> FilesOf(call.src)]

C14_Witness ==
    /\ call.made
    /\ call.src = call.dst
    /\ call.src.snapshot_tag = None
    /\ call.res.unchanged_files = DiffPaths

\* C15: for all lock states a and b, whatever their tags, the added set of
\* _diff_locks(a, b) is the removed set of _diff_locks(b, a), and the removed
\* set of _diff_locks(a, b) is the added set of _diff_locks(b, a).
C15_AddedIsRemovedOfReverse ==
    call.made =>
        /\ call.res.added_files = DiffLocks(call.dst, call.src).removed_files
        /\ call.res.removed_files = DiffLocks(call.dst, call.src).added_files

C15_Witness ==
    /\ call.made
    /\ call.src.snapshot_tag # None
    /\ call.dst.snapshot_tag = None
    /\ call.res.added_files = {YBin}
    /\ call.res.removed_files = {XBin}
    /\ DiffLocks(call.dst, call.src).removed_files = {YBin}

\* C16: a checkout, dry or not, whose target tag no remote snapshot carries
\* (the tag of lock.json when no target is given, None included) ends in an
\* error: nothing is restored, no diff is computed, and lock.json,
\* config.json, the worktree and the remote are as they were.
C16_UnknownTagAborts ==
    [][(/\ out'.cmd \in {"checkout", "checkout_dry"}
        /\ BlobmanTag(IF out'.arg = None THEN lock.snapshot_tag ELSE out'.arg)
              \notin RemoteTags) =>
          /\ out'.status \in {"unknown_tag", "list_fails"}
          /\ ~call'.made
          /\ lock' = lock
          /\ config' = config
          /\ fs' = fs
          /\ remote' = remote]_vars

C16_Witness ==
    /\ out.cmd = "checkout"
    /\ out.status = "unknown_tag"
    /\ out.arg # None
    /\ Len(remote) > 0
    /\ fs[FileA] # 0
    /\ \E i \in 1..Len(remote) : remote[i].files # <<>> /\ remote[i].files[FileA] # fs[FileA]

\* the view _ls resolved the patterns in
Here == View(cwd, fs)

\* p names a regular file: no directory, no symbolic link
IsRegular(w, p) ==
    /\ p # <<>>
    /\ \/ At(w, p) \in VarFiles /\ w.files[At(w, p)] # 0
       \/ At(w, p) \in FixedFiles

\* the paths that match one of the globs, and the paths below a directory that
\* matches one of them
Candidates(w, globs) ==
    LET matched == UNION {Glob(w, g) : g \in globs}
    IN  matched \cup
        UNION {{PathJoin(PathStr(d), y) : y \in Rlistdir(w, PathStr(d), FALSE)} :
                 d \in {m \in matched : IsDir(w, m)}}

\* C17: _ls yields, in lexicographic order and each once, exactly the regular
\* files that match a glob or lie below a directory that matches one;
\* directories and symbolic links are never yielded, and no pattern at all
\* yields nothing.
C17_OnlyRegularFiles ==
    out.cmd = "_ls" =>
        /\ \A i, j \in 1..Len(listed) : i < j => StrLess(listed[i], listed[j])
        /\ Range(listed) = {p \in Candidates(Here, Values(config)) : IsRegular(Here, p)}
        /\ \A p \in Range(listed) : At(Here, p) \notin {DirD, LinkS}
        /\ (config = <<>> => listed = <<>>)

\* C18: what _ls yields does not depend on the working directory the command
\* is run from: it is what the patterns resolve to from the repository root.
C18_SameFromEveryCwd ==
    out.cmd = "_ls" => listed = Sorted(LsSet(View(Root, fs), Values(config)))

\* the (path, hash) pairs of a lock state
Pairs(l) == {<<e.file, e.hash>> : e \in Range(l.tracked_files)}

\* C19: the worktree lock carries the tag of lock.json when its (path, hash)
\* pairs are those of lock.json and no tag otherwise; snapshot --dry reports
\* nothing added, removed or modified exactly when the worktree is equivalent
\* to lock.json.
C19_CleanIffNothingReported ==
    (out.cmd = "snapshot_dry" /\ out.status = "ok") =>
        /\ call.src = lock
        /\ call.dst.tracked_files = Hashed(Sorted(Resolved(config)))
        /\ call.dst.snapshot_tag =
              (IF Pairs(call.dst) = Pairs(lock) THEN lock.snapshot_tag ELSE None)
        /\ (Pairs(call.dst) = Pairs(lock)) <=>
              (/\ call.res.added_files = {}
               /\ call.res.removed_files = {}
               /\ call.res.modified_files = {})

C19_Witness ==
    /\ out.cmd = "snapshot_dry"
    /\ out.status = "ok"
    /\ lock.snapshot_tag # None
    /\ call.dst.snapshot_tag = None
    /\ call.res.modified_files = {FileA, LinkS}
    /\ call.res.added_files = {}
    /\ call.res.removed_files = {}

\* what the hash comparison of _diff_locks gives for two lock states
ByHashes(src, dst) ==
    [added_files |-> FilesOf(dst) \ FilesOf(src),
     removed_files |-> FilesOf(src) \ FilesOf(dst),
     modified_files |-> {p \in FilesOf(src) \cap FilesOf(dst) : HashOf(src, p) # HashOf(dst, p)},
     unchanged_files |-> {p \in FilesOf(src) \cap FilesOf(dst) : HashOf(src, p) = HashOf(dst, p)}]

\* C20: in every call of _diff_locks that snapshot and checkout make, the two
\* lock states carry the same present tag only when their (path, hash) pairs
\* are equal, and the LockDiff returned is the one the comparison of the
\* hashes gives.
C20_FastPathOnlyOnEqualMaps ==
    call.made =>
        /\ SameTag => Pairs(call.src) = Pairs(call.dst)
        /\ call.res = ByHashes(call.src, call.dst)

C20_Witness ==
    /\ out.cmd = "checkout"
    /\ out.status = "restore_fails"
    /\ call.made
    /\ SameTag
    /\ FileA \in call.res.unchanged_files
    /\ Len(remote) = 2

====
